---- MODULE Spec2Model ----
(***************************************************************************)
(* A state-machine model of src/index.js: the REST facade over the        *)
(* WhatsApp protocol client.  The process-wide singletons sock,            *)
(* connectionState, chats and messagesStore are the state; every HTTP      *)
(* handler, every event callback registered in connectToWhatsApp and every *)
(* resumption after an await is one action.  The protocol client library,  *)
(* the auth-state adapter and the file system are the environment: each of *)
(* their calls resolves or rejects nondeterministically.                   *)
(*                                                                         *)
(* Strings the code inspects are sequences: a phone number is a sequence   *)
(* of characters, a chat id a sequence of tokens ("@" is a token, a        *)
(* percent escape is a token).  A nullable JavaScript value is None or     *)
(* Some(v).                                                                *)
(***************************************************************************)
EXTENDS Integers, Sequences, FiniteSets, TLC

\* ------------------------------------------------------------- bounds
\* connectToWhatsApp calls of pairing requests that create a client, in one run.
MaxPairings == 2
\* connectToWhatsApp calls of reconnect timers that create a client, in one run.
MaxReconnects == 1
\* Message records held in messagesStore, all chats together.
MaxStored == 3
\* Messages in one inbound messages.upsert batch.
MaxBatch == 2

\* -------------------------------------------------- program constants
maxAttempts == 30
MinDigits == 10

\* ------------------------------------------------------ nullable values
None == <<>>
Some(x) == <<x>>

\* ------------------------------------------------------------- strings
Digits == {"0", "1", "2", "3", "4", "5", "6", "7", "8", "9"}

\* phoneNumber.replace(/\D/g, '')
StripNonDigits(s) == SelectSeq(s, LAMBDA ch : ch \in Digits)

\* req.body.phoneNumber as express.json() delivers it: any JSON value.
PhoneAbsent == [type |-> "undefined", str |-> <<>>]
PhoneString(s) == [type |-> "string", str |-> s]
PhoneNumeric(s) == [type |-> "number", str |-> s]

\* JavaScript falsiness of a request-body value modelled as above.
Falsy(v) ==
    \/ v.type = "undefined"
    \/ v.type = "string" /\ v.str = <<>>
    \/ v.type = "number" /\ v.str = <<"0">>

ShortPhone == <<"1", "2", "3">>
NineDigitPhone == <<"+", "1", " ", "2", "3", "4", "-", "5", "6", "7", "-", "8", "9">>
TenDigitPhone == <<"1", "2", "3", "4", "5", "6", "7", "8", "9", "0">>
FormattedPhone == <<"(", "1", "2", "3", ")", " ", "4", "5", "6", "-", "7", "8", "9", "0">>
OtherPhone == <<"+", "4", "4", " ", "2", "0", "7", "9", "4", "6", "0", "9", "5", "8">>

\* The request bodies the pairing endpoint is driven with.
PhoneInputs ==
    { PhoneAbsent, PhoneString(<<>>), PhoneString(ShortPhone),
      PhoneString(NineDigitPhone), PhoneString(TenDigitPhone),
      PhoneString(FormattedPhone), PhoneNumeric(ShortPhone) }

\* ------------------------------------------------------------ chat ids
UserJid == <<"111", "@", "s.whatsapp.net">>
GroupJid == <<"222", "@", "g.us">>
OtherGroupJid == <<"333", "@", "g.us">>

\* req.params.chatId values; "%40" is the escape of "@", "%" alone is malformed.
ChatParams ==
    { UserJid, <<"111", "%40", "s.whatsapp.net">>, <<"222", "%40", "g.us">>, <<"%">> }

Malformed(param) == \E i \in 1..Len(param) : param[i] = "%"

\* decodeURIComponent on a well-formed parameter.
decodeURIComponent(param) ==
    [i \in 1..Len(param) |-> IF param[i] = "%40" THEN "@" ELSE param[i]]

\* chatId.split('@')[0]
RECURSIVE BeforeAt(_)
BeforeAt(s) ==
    IF s = <<>> \/ Head(s) = "@" THEN <<>> ELSE <<Head(s)>> \o BeforeAt(Tail(s))

\* chatId.endsWith('@g.us')
EndsWithGUs(s) == Len(s) >= 2 /\ s[Len(s) - 1] = "@" /\ s[Len(s)] = "g.us"

\* ------------------------------------------------------- error messages
LoggedOutError == "Logged out"
LibError == "Connection Failure"
ReplaceTypeError == "phoneNumber.replace is not a function"
NullSockError == "Cannot read properties of null"
UriError == "URI malformed"

\* ---------------------------------------------------------------- state
VARIABLES
    sock,             \* the client handle: 0 is null, else a client id
    connectionState,  \* the ConnectionState record
    chats,            \* the chat list
    messagesStore,    \* chat id -> message list (a function on the keys present)
    clients,          \* every protocol client created: its lifecycle and closure
    calls,            \* connectToWhatsApp invocations in flight, by caller
    req,              \* pairing requests in flight
    timers,           \* pending reconnect timers: the phone number each closes over
    sendOp,           \* the send handler suspended at sock.sendMessage
    discOp,           \* the disconnect handler suspended at sock.logout
    loadsPending,     \* loadChats calls suspended at groupFetchAllParticipating
    resp,             \* the HTTP response the step just taken wrote (NoResp: none)
    unhandled         \* a rejected promise nobody handles has occurred

vars == << sock, connectionState, chats, messagesStore, clients, calls, req,
           timers, sendOp, discOp, loadsPending, resp, unhandled >>

NoSock == 0
ClientIds == 1..(MaxPairings + MaxReconnects)
TimerIds == 1..MaxReconnects
ReqIds == {1}
AllReqIds == {1, 2}
CallIds == {<<"req", r>> : r \in AllReqIds} \cup {<<"timer", i>> : i \in TimerIds}

InitialConnectionState ==
    [ connected |-> FALSE, connecting |-> FALSE, pairingCode |-> None,
      phoneNumber |-> None, error |-> None, qr |-> None ]

EmptyStore == [k \in {} |-> <<>>]
FreeCall == [pc |-> "free", phone |-> <<>>, registered |-> FALSE]
IdleReq == [pc |-> "idle", attempts |-> 0]
UnusedClient == [status |-> "unused", phone |-> <<>>, via |-> "none"]
NoResp ==
    [ op |-> "none", req |-> 0, status |-> 0, success |-> FALSE, message |-> "",
      pairingCode |-> None, connected |-> FALSE ]

Init ==
    /\ sock = NoSock
    /\ connectionState = InitialConnectionState
    /\ chats = <<>>
    /\ messagesStore = EmptyStore
    /\ clients = [c \in ClientIds |-> UnusedClient]
    /\ calls = [id \in CallIds |-> FreeCall]
    /\ req = [r \in AllReqIds |-> IdleReq]
    /\ timers = <<>>
    /\ sendOp = None
    /\ discOp = None
    /\ loadsPending = 0
    /\ resp = NoResp
    /\ unhandled = FALSE

\* ------------------------------------------------------------ responses
Response(op, r, status, success, message) ==
    [ op |-> op, req |-> r, status |-> status, success |-> success,
      message |-> message, pairingCode |-> None, connected |-> FALSE ]

NotConnected(op) == Response(op, 0, 503, FALSE, "WhatsApp not connected")


\* --------------------------------------------- POST /api/request-pairing-code
\* The validation at the head of the handler: which early return, if any.
PairingValidation(input) ==
    IF Falsy(input) THEN "required"
    ELSE IF input.type # "string" THEN "throws"
    ELSE IF Len(StripNonDigits(input.str)) < MinDigits THEN "invalid"
    ELSE "ok"

\* The pairing code the protocol client generates for a phone number.
PairingCodeFor(phone) == [forPhone |-> phone]

\* PollOutcome with the timeout reported as an error.
PollOutcomeTimeoutAsError(r, cs, attempts) ==
    IF cs.pairingCode = None /\ attempts < maxAttempts
    THEN IF cs.error # None
         THEN [sleep |-> FALSE, resp |-> Response("pair", r, 500, FALSE, cs.error[1])]
         ELSE IF cs.connected
         THEN [sleep |-> FALSE,
               resp |-> [Response("pair", r, 200, TRUE, "Already connected")
                            EXCEPT !.connected = TRUE]]
         ELSE [sleep |-> TRUE, resp |-> NoResp]
    ELSE IF cs.pairingCode # None
         THEN [sleep |-> FALSE,
               resp |-> [Response("pair", r, 200, TRUE, "Enter this code in WhatsApp")
                            EXCEPT !.pairingCode = cs.pairingCode]]
         ELSE [sleep |-> FALSE,
               resp |-> Response("pair", r, 500, FALSE, "Failed to generate pairing code")]

\* One evaluation of the poll loop's condition and body, up to its await, and
\* of the statements after the loop: the response given, or none (sleep).
PollOutcome(r, cs, attempts) ==
    IF cs.pairingCode = None /\ attempts < maxAttempts
    THEN IF cs.error # None
         THEN [sleep |-> FALSE, resp |-> Response("pair", r, 500, FALSE, cs.error[1])]
         ELSE IF cs.connected
         THEN [sleep |-> FALSE,
               resp |-> [Response("pair", r, 200, TRUE, "Already connected")
                            EXCEPT !.connected = TRUE]]
         ELSE [sleep |-> TRUE, resp |-> NoResp]
    ELSE IF cs.pairingCode # None
         THEN [sleep |-> FALSE,
               resp |-> [Response("pair", r, 200, TRUE, "Enter this code in WhatsApp")
                            EXCEPT !.pairingCode = cs.pairingCode]]
         ELSE [sleep |-> FALSE,
               resp |-> Response("pair", r, 408, FALSE, "Timeout waiting for pairing code")]

\* The catch block of connectToWhatsApp.
ConnectCatch(cs, msg) == [cs EXCEPT !.error = Some(msg), !.connecting = FALSE]

\* The catch block of the pairing handler.
PairingCatch(cs, msg) == [cs EXCEPT !.connecting = FALSE, !.error = Some(msg)]

\* Whether the caller of a connectToWhatsApp call handles its rejection: the
\* pairing handler awaits it inside try/catch, the reconnect timer's arrow
\* function drops the promise.
CallerCatches(id) == id[1] = "req"

\* connectToWhatsApp returned (with cs the connectionState at that moment):
\* the awaiting caller resumes.  The pairing handler enters its poll loop.
ConnectReturned(id, cs) ==
    /\ connectionState' = cs
    /\ calls' = [calls EXCEPT ![id] = FreeCall]
    /\ unhandled' = unhandled
    /\ IF id[1] = "req"
       THEN LET o == PollOutcome(id[2], cs, 0) IN
            /\ req' = [req EXCEPT ![id[2]] =
                          IF o.sleep THEN [pc |-> "sleep", attempts |-> 0] ELSE IdleReq]
            /\ resp' = o.resp
       ELSE /\ req' = req
            /\ resp' = NoResp

\* connectToWhatsApp threw msg: its catch block runs and rethrows to the caller.
ConnectThrew(id, cs, msg) ==
    /\ calls' = [calls EXCEPT ![id] = FreeCall]
    /\ IF CallerCatches(id)
       THEN /\ connectionState' = PairingCatch(ConnectCatch(cs, msg), msg)
            /\ req' = [req EXCEPT ![id[2]] = IdleReq]
            /\ resp' = Response("pair", id[2], 500, FALSE, msg)
            /\ unhandled' = unhandled
       ELSE /\ connectionState' = ConnectCatch(cs, msg)
            /\ unhandled' = TRUE
            /\ req' = req
            /\ resp' = NoResp

UsedClients == {c \in ClientIds : clients[c].status # "unused"}
StartingCalls == {id \in CallIds : calls[id].pc \in {"auth", "version"}}
\* The clients created, and about to be created, by calls of one kind of
\* caller ("req": a pairing request, "timer": a reconnect timer).
Started(kind) ==
    Cardinality({c \in UsedClients : clients[c].via = kind})
        + Cardinality({id \in StartingCalls : id[1] = kind})
\* A further connectToWhatsApp call of a pairing request, of a timer, may start.
PairingBudgetLeft == Started("req") < MaxPairings
ReconnectBudgetLeft == Started("timer") < MaxReconnects
FreshClient == CHOOSE c \in ClientIds :
                  /\ clients[c].status = "unused"
                  /\ \A d \in ClientIds : d < c => clients[d].status # "unused"

\* The handler up to its first await (inside connectToWhatsApp, at
\* useMultiFileAuthState), or up to the response of an early return.
PairRequest(r, input) ==
    /\ req[r].pc = "idle"
    /\ LET v == PairingValidation(input) IN
       CASE v = "required" ->
              /\ resp' = Response("pair", r, 400, FALSE, "Phone number is required")
              /\ UNCHANGED << connectionState, calls, req >>
         [] v = "invalid" ->
              /\ resp' = Response("pair", r, 400, FALSE, "Invalid phone number format")
              /\ UNCHANGED << connectionState, calls, req >>
         [] v = "throws" ->
              /\ connectionState' = PairingCatch(connectionState, ReplaceTypeError)
              /\ resp' = Response("pair", r, 500, FALSE, ReplaceTypeError)
              /\ UNCHANGED << calls, req >>
         [] v = "ok" ->
              /\ PairingBudgetLeft
              /\ connectionState' =
                    [connectionState EXCEPT
                        !.phoneNumber = Some(StripNonDigits(input.str)),
                        !.connecting = TRUE, !.error = None, !.pairingCode = None]
              /\ calls' = [calls EXCEPT ![<<"req", r>>] =
                              [pc |-> "auth", phone |-> StripNonDigits(input.str),
                               registered |-> FALSE]]
              /\ req' = [req EXCEPT ![r] = [pc |-> "connect", attempts |-> 0]]
              /\ resp' = NoResp
    /\ UNCHANGED << sock, chats, messagesStore, clients, timers, sendOp, discOp,
                    loadsPending, unhandled >>

\* PollWake without attempts++.
PollWakeStuck(r) ==
    /\ req[r].pc = "sleep"
    /\ LET o == PollOutcome(r, connectionState, req[r].attempts) IN
       /\ req' = [req EXCEPT ![r] =
                     IF o.sleep THEN [pc |-> "sleep", attempts |-> req[r].attempts]
                     ELSE IdleReq]
       /\ resp' = o.resp
    /\ UNCHANGED << sock, connectionState, chats, messagesStore, clients, calls,
                    timers, sendOp, discOp, loadsPending, unhandled >>

\* The poll loop's timer fired: attempts++ and the next evaluation.
PollWake(r) ==
    /\ req[r].pc = "sleep"
    /\ LET o == PollOutcome(r, connectionState, req[r].attempts + 1) IN
       /\ req' = [req EXCEPT ![r] =
                     IF o.sleep THEN [pc |-> "sleep", attempts |-> req[r].attempts + 1]
                     ELSE IdleReq]
       /\ resp' = o.resp
    /\ UNCHANGED << sock, connectionState, chats, messagesStore, clients, calls,
                    timers, sendOp, discOp, loadsPending, unhandled >>

\* ------------------------------------------------------- connectToWhatsApp
\* useMultiFileAuthState settled: the auth state is loaded (registered or
\* not), or the call throws.
ConnectAuthDone(id, ok, registered) ==
    /\ calls[id].pc = "auth"
    /\ IF ok
       THEN /\ calls' = [calls EXCEPT ![id].pc = "version", ![id].registered = registered]
            /\ UNCHANGED << connectionState, req, unhandled >>
            /\ resp' = NoResp
       ELSE ConnectThrew(id, connectionState, LibError)
    /\ UNCHANGED << sock, chats, messagesStore, clients, timers, sendOp, discOp,
                    loadsPending >>

\* phoneNumber && !state.creds.registered
WantsPairingCode(call) == call.phone # <<>> /\ ~call.registered

\* fetchLatestBaileysVersion settled, then makeWASocket and the three
\* ev.on registrations, up to the 2-second wait or the return.
ConnectVersionDone(id, ok) ==
    /\ calls[id].pc = "version"
    /\ IF ~ok
       THEN /\ ConnectThrew(id, connectionState, LibError)
            /\ UNCHANGED << sock, clients >>
       ELSE /\ sock' = FreshClient
            /\ clients' = [clients EXCEPT ![FreshClient] =
                              [status |-> "connecting", phone |-> calls[id].phone,
                               via |-> id[1]]]
            /\ IF WantsPairingCode(calls[id])
               THEN /\ connectionState' = [connectionState EXCEPT !.connecting = TRUE]
                    /\ calls' = [calls EXCEPT ![id].pc = "delay"]
                    /\ UNCHANGED << req, unhandled >>
                    /\ resp' = NoResp
               ELSE ConnectReturned(id, connectionState)
    /\ UNCHANGED << chats, messagesStore, timers, sendOp, discOp, loadsPending >>

\* The 2-second wait is over: sock.requestPairingCode(phoneNumber) is called
\* on whatever sock holds now; on null the TypeError lands in the inner catch.
ConnectDelayDone(id) ==
    /\ calls[id].pc = "delay"
    /\ IF sock = NoSock
       THEN ConnectReturned(id, [connectionState EXCEPT
                                    !.error = Some(NullSockError), !.connecting = FALSE])
       ELSE /\ calls' = [calls EXCEPT ![id].pc = "pairing"]
            /\ UNCHANGED << connectionState, req, unhandled >>
            /\ resp' = NoResp
    /\ UNCHANGED << sock, chats, messagesStore, clients, timers, sendOp, discOp,
                    loadsPending >>

\* ConnectPairingDone with an inner catch that records nothing.
ConnectPairingDoneSilent(id, ok) ==
    /\ calls[id].pc = "pairing"
    /\ ConnectReturned(id,
          IF ok
          THEN [connectionState EXCEPT !.pairingCode = Some(PairingCodeFor(calls[id].phone))]
          ELSE connectionState)
    /\ UNCHANGED << sock, chats, messagesStore, clients, timers, sendOp, discOp,
                    loadsPending >>

\* sock.requestPairingCode settled; then connectToWhatsApp returns.
ConnectPairingDone(id, ok) ==
    /\ calls[id].pc = "pairing"
    /\ ConnectReturned(id,
          IF ok
          THEN [connectionState EXCEPT !.pairingCode = Some(PairingCodeFor(calls[id].phone))]
          ELSE [connectionState EXCEPT !.error = Some(LibError), !.connecting = FALSE])
    /\ UNCHANGED << sock, chats, messagesStore, clients, timers, sendOp, discOp,
                    loadsPending >>


\* ---------------------------------------------------------- chat projection
ChatIndex(list, chatId) == {i \in 1..Len(list) : list[i].id = chatId}

\* chats.find(c => c.id === chatId): the first match.
FirstIndex(list, chatId) ==
    CHOOSE i \in ChatIndex(list, chatId) : \A j \in ChatIndex(list, chatId) : i <= j

LastMessageOf(message) == Some([body |-> message.body, timestamp |-> message.timestamp])

\* updateChatWithMessage without the lookup: every message unshifts an entry.
updateChatAlwaysUnshift(list, chatId, message) ==
    << [ id |-> chatId, name |-> BeforeAt(chatId), isGroup |-> EndsWithGUs(chatId),
         timestamp |-> message.timestamp,
         lastMessage |-> LastMessageOf(message) ] >> \o list

updateChatWithMessage(list, chatId, message) ==
    IF ChatIndex(list, chatId) # {}
    THEN [list EXCEPT ![FirstIndex(list, chatId)] =
             [@ EXCEPT !.lastMessage = LastMessageOf(message),
                       !.timestamp = message.timestamp]]
    ELSE << [ id |-> chatId, name |-> BeforeAt(chatId), isGroup |-> EndsWithGUs(chatId),
              timestamp |-> message.timestamp,
              lastMessage |-> LastMessageOf(message) ] >> \o list

\* Push putting the record at the head of the list.
PushFront(store, chatId, record) ==
    IF chatId \in DOMAIN store
    THEN [store EXCEPT ![chatId] = <<record>> \o @]
    ELSE (chatId :> <<record>>) @@ store

\* messagesStore[chatId].push(record), creating the list when the key is absent.
Push(store, chatId, record) ==
    IF chatId \in DOMAIN store
    THEN [store EXCEPT ![chatId] = Append(@, record)]
    ELSE (chatId :> <<record>>) @@ store

RECURSIVE SumLen(_, _)
SumLen(store, keys) ==
    IF keys = {} THEN 0
    ELSE LET k == CHOOSE x \in keys : TRUE IN Len(store[k]) + SumLen(store, keys \ {k})
Stored == SumLen(messagesStore, DOMAIN messagesStore)

\* ------------------------------------------------ messages.upsert handler
\* An inbound message: its key, its timestamp and msg.message as the list of
\* its own keys, each with the text it carries ("" when it carries none).
Inbound(jid, id, ts, content) ==
    [remoteJid |-> jid, id |-> id, fromMe |-> FALSE, messageTimestamp |-> ts,
     message |-> content]

InboundMsgs ==
    { Inbound(UserJid, "A1", 1, << <<"conversation", "hi">> >>),
      Inbound(UserJid, "A2", 2, << <<"messageContextInfo", "">>,
                                   <<"extendedTextMessage", "yo">> >>),
      Inbound(GroupJid, "A3", 2, << <<"imageMessage", "">> >>) }

Batches == UNION {[1..n -> InboundMsgs] : n \in 0..MaxBatch}

TextOf(content, key) ==
    IF \E i \in 1..Len(content) : content[i][1] = key
    THEN content[CHOOSE i \in 1..Len(content) : content[i][1] = key][2]
    ELSE ""

\* conversation || extendedTextMessage.text || imageMessage.caption || '[Media]'
BodyOf(content) ==
    IF TextOf(content, "conversation") # "" THEN TextOf(content, "conversation")
    ELSE IF TextOf(content, "extendedTextMessage") # ""
    THEN TextOf(content, "extendedTextMessage")
    ELSE IF TextOf(content, "imageMessage") # "" THEN TextOf(content, "imageMessage")
    ELSE "[Media]"

MessageData(msg) ==
    [ id |-> msg.id, body |-> BodyOf(msg.message), from |-> msg.remoteJid,
      timestamp |-> msg.messageTimestamp, isOutgoing |-> msg.fromMe,
      type |-> IF msg.message = <<>> THEN None ELSE Some(msg.message[1][1]) ]

\* The for loop over the batch: the store and the chat list after it.
RECURSIVE ApplyBatch(_, _, _)
ApplyBatch(store, list, batch) ==
    IF batch = <<>> THEN [store |-> store, chats |-> list]
    ELSE ApplyBatch(Push(store, Head(batch).remoteJid, MessageData(Head(batch))),
                    updateChatWithMessage(list, Head(batch).remoteJid,
                                          MessageData(Head(batch))),
                    Tail(batch))

Live(c) == clients[c].status \in {"connecting", "open"}

MessagesUpsert(c, batch, type) ==
    /\ clients[c].status = "open"
    /\ Stored + Len(batch) <= MaxStored
    /\ IF type = "notify"
       THEN /\ messagesStore' = ApplyBatch(messagesStore, chats, batch).store
            /\ chats' = ApplyBatch(messagesStore, chats, batch).chats
       ELSE UNCHANGED << messagesStore, chats >>
    /\ UNCHANGED << sock, connectionState, clients, calls, req, timers, sendOp, discOp,
                    loadsPending, unhandled >>
    /\ resp' = NoResp

\* ---------------------------------------------- connection.update handler
CloseReasons == {"loggedOut", "connectionLost", "none"}

\* shouldReconnect with the comparison inverted.
shouldReconnectInverted(reason) == reason = "loggedOut"

\* lastDisconnect?.error?.output?.statusCode !== DisconnectReason.loggedOut
shouldReconnect(reason) == reason # "loggedOut"

\* connectionState after the close branch.
CloseState(cs, reason) ==
    IF shouldReconnect(reason)
    THEN [cs EXCEPT !.connected = FALSE, !.connecting = FALSE]
    ELSE [cs EXCEPT !.connected = FALSE, !.connecting = FALSE,
                    !.error = Some(LoggedOutError)]

\* The reconnect timers after the close branch of a client whose
\* connectToWhatsApp call was given phone.
CloseTimers(reason, phone) ==
    IF shouldReconnect(reason) THEN Append(timers, phone) ELSE timers

\* The client handle after the close branch.
CloseSock(reason) == IF shouldReconnect(reason) THEN sock ELSE NoSock

CloseEvent(c, reason) ==
    /\ Live(c)
    /\ clients' = [clients EXCEPT ![c].status = "closed"]
    /\ connectionState' = CloseState(connectionState, reason)
    /\ timers' = CloseTimers(reason, clients[c].phone)
    /\ sock' = CloseSock(reason)
    /\ UNCHANGED << chats, messagesStore, calls, req, sendOp, discOp, loadsPending,
                    unhandled >>
    /\ resp' = NoResp

\* connectionState after the open branch.
OpenState(cs) ==
    [cs EXCEPT !.connected = TRUE, !.connecting = FALSE, !.pairingCode = None,
               !.qr = None, !.error = None]

\* The open branch, up to loadChats' await (or its early return on a null sock).
OpenEvent(c) ==
    /\ clients[c].status = "connecting"
    /\ clients' = [clients EXCEPT ![c].status = "open"]
    /\ connectionState' = OpenState(connectionState)
    /\ loadsPending' = IF sock = NoSock THEN loadsPending ELSE loadsPending + 1
    /\ UNCHANGED << sock, chats, messagesStore, calls, req, timers, sendOp, discOp,
                    unhandled >>
    /\ resp' = NoResp

\* An update carrying a qr and no connection field.
QrEvent(c) ==
    /\ clients[c].status = "connecting"
    /\ connectionState' = [connectionState EXCEPT !.qr = Some("qr")]
    /\ UNCHANGED << sock, chats, messagesStore, clients, calls, req, timers, sendOp,
                    discOp, loadsPending, unhandled >>
    /\ resp' = NoResp

\* ------------------------------------------------------------- loadChats
Group(jid, subject, creation) == [id |-> jid, subject |-> subject, creation |-> creation]
TeamGroup == Group(GroupJid, Some(<<"Team">>), 1)
UnnamedGroup == Group(OtherGroupJid, None, 2)

\* Object.values of what groupFetchAllParticipating resolves with: an object
\* keyed by group id, so no id occurs twice.
GroupLists ==
    { <<>>, <<TeamGroup>>, <<UnnamedGroup>>, <<TeamGroup, UnnamedGroup>>,
      <<UnnamedGroup, TeamGroup>> }

\* ChatsOfGroups listing the groups last to first.
ChatsOfGroupsReversed(groups) ==
    [i \in 1..Len(groups) |->
        [ id |-> groups[Len(groups) + 1 - i].id,
          name |-> IF groups[Len(groups) + 1 - i].subject = None THEN <<"Unknown">>
                   ELSE groups[Len(groups) + 1 - i].subject[1],
          isGroup |-> TRUE, timestamp |-> groups[Len(groups) + 1 - i].creation,
          lastMessage |-> None ]]

\* groups.map(group => ({...}))
ChatsOfGroups(groups) ==
    [i \in 1..Len(groups) |->
        [ id |-> groups[i].id,
          name |-> IF groups[i].subject = None THEN <<"Unknown">> ELSE groups[i].subject[1],
          isGroup |-> TRUE, timestamp |-> groups[i].creation, lastMessage |-> None ]]

\* groupFetchAllParticipating settled.
LoadChatsDone(ok, groups) ==
    /\ loadsPending > 0
    /\ loadsPending' = loadsPending - 1
    /\ chats' = IF ok THEN ChatsOfGroups(groups) ELSE chats
    /\ UNCHANGED << sock, connectionState, messagesStore, clients, calls, req, timers,
                    sendOp, discOp, unhandled >>
    /\ resp' = NoResp

\* --------------------------------------------------------- reconnect timer
FreeTimerSlot ==
    CHOOSE i \in TimerIds :
        /\ calls[<<"timer", i>>].pc = "free"
        /\ \A j \in TimerIds : j < i => calls[<<"timer", j>>].pc # "free"

\* setTimeout(() => connectToWhatsApp(phoneNumber), 3000) fires: the call runs
\* up to its first await.  Equal delays fire in the order they were set.
TimerFire ==
    /\ timers # <<>>
    /\ ReconnectBudgetLeft
    /\ timers' = Tail(timers)
    /\ calls' = [calls EXCEPT ![<<"timer", FreeTimerSlot>>] =
                    [pc |-> "auth", phone |-> Head(timers), registered |-> FALSE]]
    /\ UNCHANGED << sock, connectionState, chats, messagesStore, clients, req, sendOp,
                    discOp, loadsPending, unhandled >>
    /\ resp' = NoResp


\* ------------------------------------------------------ read-only endpoints
Health ==
    /\ resp' = Response("health", 0, 200, TRUE, "ok")
    /\ UNCHANGED << sock, connectionState, chats, messagesStore, clients, calls, req,
                    timers, sendOp, discOp, loadsPending, unhandled >>

\* ConnectionStatus clearing the error it has just reported.
ConnectionStatusClearing ==
    /\ resp' = [ Response("status", 0, 200, TRUE,
                          IF connectionState.error = None THEN ""
                          ELSE connectionState.error[1])
                   EXCEPT !.connected = connectionState.connected ]
    /\ connectionState' = [connectionState EXCEPT !.error = None]
    /\ UNCHANGED << sock, chats, messagesStore, clients, calls, req,
                    timers, sendOp, discOp, loadsPending, unhandled >>

ConnectionStatus ==
    /\ resp' = [ Response("status", 0, 200, TRUE,
                          IF connectionState.error = None THEN ""
                          ELSE connectionState.error[1])
                   EXCEPT !.connected = connectionState.connected ]
    /\ UNCHANGED << sock, connectionState, chats, messagesStore, clients, calls, req,
                    timers, sendOp, discOp, loadsPending, unhandled >>

GetChats ==
    /\ resp' = IF ~connectionState.connected THEN NotConnected("chats")
               ELSE Response("chats", 0, 200, TRUE, "")
    /\ UNCHANGED << sock, connectionState, chats, messagesStore, clients, calls, req,
                    timers, sendOp, discOp, loadsPending, unhandled >>

GetMessages(param) ==
    /\ resp' = IF ~connectionState.connected THEN NotConnected("messages")
               ELSE IF Malformed(param) THEN Response("messages", 0, 500, FALSE, UriError)
               ELSE Response("messages", 0, 200, TRUE, "")
    /\ UNCHANGED << sock, connectionState, chats, messagesStore, clients, calls, req,
                    timers, sendOp, discOp, loadsPending, unhandled >>

GetContacts ==
    /\ resp' = IF ~connectionState.connected THEN NotConnected("contacts")
               ELSE Response("contacts", 0, 200, TRUE, "")
    /\ UNCHANGED << sock, connectionState, chats, messagesStore, clients, calls, req,
                    timers, sendOp, discOp, loadsPending, unhandled >>

\* ------------------------------------------ POST /api/chats/:chatId/messages
\* req.body.message: absent, the empty string, or a text.
MessageInputs == {None, Some(""), Some("hello")}
NoMessage(message) == message = None \/ message = Some("")

\* SendPrecheck validating the body before looking at the connection.
SendPrecheckBodyFirst(param, message) ==
    IF NoMessage(message)
    THEN Response("send", 0, 400, FALSE, "Message content is required")
    ELSE IF ~connectionState.connected THEN NotConnected("send")
    ELSE IF Malformed(param) THEN Response("send", 0, 500, FALSE, UriError)
    ELSE IF sock = NoSock THEN Response("send", 0, 500, FALSE, NullSockError)
    ELSE NoResp

\* Which response the handler gives before reaching sock.sendMessage, if any.
SendPrecheck(param, message) ==
    IF ~connectionState.connected THEN NotConnected("send")
    ELSE IF Malformed(param) THEN Response("send", 0, 500, FALSE, UriError)
    ELSE IF NoMessage(message)
    THEN Response("send", 0, 400, FALSE, "Message content is required")
    ELSE IF sock = NoSock THEN Response("send", 0, 500, FALSE, NullSockError)
    ELSE NoResp

\* The handler up to its early return or to the await of sock.sendMessage.
SendRequest(param, message) ==
    /\ IF SendPrecheck(param, message) # NoResp
       THEN /\ resp' = SendPrecheck(param, message)
            /\ sendOp' = sendOp
       ELSE /\ sendOp = None
            /\ Stored < MaxStored
            /\ sendOp' = Some([param |-> param, chatId |-> decodeURIComponent(param),
                                 message |-> message[1]])
            /\ resp' = NoResp
    /\ UNCHANGED << sock, connectionState, chats, messagesStore, clients, calls, req,
                    timers, discOp, loadsPending, unhandled >>

SentIds == {"B1"}
\* Math.floor(Date.now() / 1000)
Clock == {3}

\* The record the handler caches for a sent message.
SentRecord(id, body, now) ==
    [id |-> id, body |-> body, timestamp |-> now, isOutgoing |-> TRUE]

\* StoreAfterSend assigning a fresh list instead of pushing.
StoreAfterSendReplacing(store, chatId, record) ==
    (chatId :> <<record>>) @@ store

\* messagesStore after the handler resumed from a sendMessage that resolved.
StoreAfterSend(store, chatId, record) == Push(store, chatId, record)

\* sock.sendMessage settled.
SendDone(ok, id, now) ==
    /\ sendOp # None
    /\ sendOp' = None
    /\ IF ok
       THEN /\ messagesStore' =
                  StoreAfterSend(messagesStore, sendOp[1].chatId,
                                 SentRecord(id, sendOp[1].message, now))
            /\ resp' = Response("send", 0, 200, TRUE, sendOp[1].message)
       ELSE /\ messagesStore' = messagesStore
            /\ resp' = Response("send", 0, 500, FALSE, LibError)
    /\ UNCHANGED << sock, connectionState, chats, clients, calls, req, timers, discOp,
                    loadsPending, unhandled >>

\* ----------------------------------------------------- POST /api/disconnect
\* The handler from the session-directory reset to its response.  The
\* directory is the one the program created at start-up: fs.rmSync and
\* fs.mkdirSync on it are taken to succeed.
DisconnectReset ==
    /\ connectionState' = InitialConnectionState
    /\ chats' = <<>>
    /\ messagesStore' = EmptyStore
    /\ resp' = Response("disconnect", 0, 200, TRUE, "Disconnected successfully")

\* The handler up to the await of sock.logout, or to its end when sock is null.
DisconnectRequest ==
    /\ discOp = None
    /\ IF sock # NoSock
       THEN /\ discOp' = Some(sock)
            /\ resp' = NoResp
            /\ UNCHANGED << connectionState, chats, messagesStore >>
       ELSE /\ discOp' = None
            /\ DisconnectReset
    /\ UNCHANGED << sock, clients, calls, req, timers, sendOp, loadsPending, unhandled >>

\* sock.logout settled.  A logout that resolves has ended the client (a client
\* still live emitted its close event, reason logged out, before that: the
\* reset overwrites what that handler wrote); one that rejects leaves the
\* handler in its catch block.
DisconnectLogoutDone(ok) ==
    /\ discOp # None
    /\ discOp' = None
    /\ IF ok
       THEN /\ sock' = NoSock
            /\ clients' = [clients EXCEPT ![discOp[1]].status = "closed"]
            /\ DisconnectReset
       ELSE /\ resp' = Response("disconnect", 0, 500, FALSE, LibError)
            /\ UNCHANGED << sock, clients, connectionState, chats, messagesStore >>
    /\ UNCHANGED << calls, req, timers, sendOp, loadsPending, unhandled >>

\* ------------------------------------------------------------ specification
PairingStep ==
    \/ \E r \in ReqIds, input \in PhoneInputs : PairRequest(r, input)
    \/ \E r \in ReqIds : PollWake(r)

ConnectStep ==
    \/ \E id \in CallIds, ok \in BOOLEAN, registered \in BOOLEAN :
          ConnectAuthDone(id, ok, registered)
    \/ \E id \in CallIds, ok \in BOOLEAN : ConnectVersionDone(id, ok)
    \/ \E id \in CallIds : ConnectDelayDone(id)
    \/ \E id \in CallIds, ok \in BOOLEAN : ConnectPairingDone(id, ok)
    \/ TimerFire

LifecycleStep ==
    \/ \E c \in ClientIds, reason \in CloseReasons : CloseEvent(c, reason)
    \/ \E c \in ClientIds : OpenEvent(c)
    \/ \E c \in ClientIds : QrEvent(c)

LoadStep == \E ok \in BOOLEAN, groups \in GroupLists : LoadChatsDone(ok, groups)

UpsertStep ==
    \E c \in ClientIds, batch \in Batches, type \in {"notify", "append"} :
        MessagesUpsert(c, batch, type)

SendStep ==
    \/ \E param \in ChatParams, message \in MessageInputs : SendRequest(param, message)
    \/ \E ok \in BOOLEAN, id \in SentIds, now \in Clock : SendDone(ok, id, now)

ReadStep ==
    \/ Health
    \/ ConnectionStatus
    \/ GetChats
    \/ \E param \in ChatParams : GetMessages(param)
    \/ GetContacts

DisconnectStep ==
    \/ DisconnectRequest
    \/ \E ok \in BOOLEAN : DisconnectLogoutDone(ok)

\* The whole program: every handler, every callback, every outcome.
Next ==
    \/ PairingStep
    \/ ConnectStep
    \/ LifecycleStep
    \/ LoadStep
    \/ UpsertStep
    \/ SendStep
    \/ ReadStep
    \/ DisconnectStep

Spec == Init /\ [][Next]_vars

(***************************************************************************)
(* The whole program's state space is beyond exhaustive search, so each    *)
(* property is checked under a specification that keeps the handlers it is *)
(* about with all their inputs and outcomes, and narrows the rest of the   *)
(* environment.  Every step of each of them is a step of Next.             *)
(***************************************************************************)

\* No pairing request has got as far as connecting yet.
FirstPairing == Started("req") = 0

\* A pairing request in a run where one valid request is made.
FirstPairRequest(r, input) ==
    /\ PairingValidation(input) = "ok" => FirstPairing
    /\ PairRequest(r, input)

\* The pairing endpoint with every input, one valid request per run.
SinglePairingStep ==
    \/ \E r \in ReqIds, input \in PhoneInputs : FirstPairRequest(r, input)
    \/ \E r \in ReqIds : PollWake(r)

\* A session that pairs without incident: an unregistered account, a pairing
\* request with a valid number, every library call of connectToWhatsApp
\* resolving, then open and, possibly, a logged-out close.
SessionStep ==
    \/ \E id \in CallIds : ConnectAuthDone(id, TRUE, FALSE)
    \/ \E id \in CallIds : ConnectVersionDone(id, TRUE)
    \/ \E id \in CallIds : ConnectDelayDone(id)
    \/ \E id \in CallIds : ConnectPairingDone(id, TRUE)
    \/ \E c \in ClientIds : OpenEvent(c)
    \/ \E c \in ClientIds : CloseEvent(c, "loggedOut")

ValidPairRequest == \E r \in ReqIds : FirstPairRequest(r, PhoneString(FormattedPhone))

\* Pairing, connecting, reconnecting and disconnecting with every input and
\* outcome; one valid pairing request, no message traffic, one group list.
NextConn ==
    \/ SinglePairingStep
    \/ ConnectStep
    \/ LifecycleStep
    \/ \E ok \in BOOLEAN : LoadChatsDone(ok, <<TeamGroup>>)
    \/ DisconnectStep

SpecConn == Init /\ [][NextConn]_vars

\* Every HTTP endpoint with every input, over sessions that pair without
\* incident; no inbound messages.
NextApi ==
    \/ \E r \in ReqIds, input \in PhoneInputs : FirstPairRequest(r, input)
    \/ SessionStep
    \/ SendStep
    \/ ReadStep
    \/ DisconnectStep

SpecApi == Init /\ [][NextApi]_vars

\* Inbound batches, chat-list refreshes and disconnects, over sessions that
\* pair without incident.
NextChats ==
    \/ ValidPairRequest
    \/ SessionStep
    \/ LoadStep
    \/ UpsertStep
    \/ DisconnectStep

SpecChats == Init /\ [][NextChats]_vars

\* Sends interleaved with inbound batches and disconnects, over sessions that
\* pair without incident.
NextSend ==
    \/ ValidPairRequest
    \/ SessionStep
    \/ UpsertStep
    \/ SendStep
    \/ DisconnectStep

SpecSend == Init /\ [][NextSend]_vars

\* A later message of the chat of the first one.
LaterMsg == Inbound(UserJid, "A4", 3, << <<"conversation", "ok">> >>)

\* The newest messageTimestamp delivered so far (0: none): every inbound
\* message is in messagesStore until a disconnect empties it.
LatestStamp ==
    LET stamps == UNION {{messagesStore[k][i].timestamp : i \in 1..Len(messagesStore[k])} :
                            k \in DOMAIN messagesStore}
    IN  IF stamps = {} THEN 0
        ELSE CHOOSE t \in stamps : \A u \in stamps : u <= t

\* Batches whose timestamps never decrease, from LatestStamp on.
OrderedBatches ==
    { b \in UNION {[1..n -> InboundMsgs \cup {LaterMsg}] : n \in 1..MaxBatch} :
        /\ b[1].messageTimestamp >= LatestStamp
        /\ \A i \in 1..(Len(b) - 1) : b[i].messageTimestamp <= b[i + 1].messageTimestamp }

\* A live delivery that keeps the timestamps in order.
OrderedUpsert(c, batch) == batch \in OrderedBatches /\ MessagesUpsert(c, batch, "notify")

\* Live deliveries in timestamp order, chat-list refreshes and disconnects,
\* over sessions that pair without incident.
NextOrder ==
    \/ ValidPairRequest
    \/ SessionStep
    \/ LoadStep
    \/ \E c \in ClientIds, batch \in OrderedBatches : OrderedUpsert(c, batch)
    \/ DisconnectStep

SpecOrder == Init /\ [][NextOrder]_vars

\* Sessions that pair without incident, one after, or over, the other; with
\* chat-list refreshes, live deliveries of one message and disconnects.
NextOpen ==
    \/ \E r \in ReqIds : PairRequest(r, PhoneString(FormattedPhone))
    \/ SessionStep
    \/ LoadStep
    \/ \E c \in ClientIds, msg \in InboundMsgs : MessagesUpsert(c, <<msg>>, "notify")
    \/ DisconnectStep

SpecOpen == Init /\ [][NextOpen]_vars

\* The numbers of concurrent pairing requests: each request its own.
RacePhone(r) == IF r = 1 THEN PhoneString(TenDigitPhone) ELSE PhoneString(OtherPhone)

\* Pairing requests that overlap, for accounts registered or not, every
\* library call of connectToWhatsApp resolving; opens, logged-out closes and
\* disconnects.
NextRace ==
    \/ \E r \in AllReqIds : PairRequest(r, RacePhone(r))
    \/ \E r \in AllReqIds : PollWake(r)
    \/ \E id \in CallIds, registered \in BOOLEAN : ConnectAuthDone(id, TRUE, registered)
    \/ \E id \in CallIds : ConnectVersionDone(id, TRUE)
    \/ \E id \in CallIds : ConnectDelayDone(id)
    \/ \E id \in CallIds : ConnectPairingDone(id, TRUE)
    \/ \E c \in ClientIds : CloseEvent(c, "loggedOut")
    \/ \E c \in ClientIds : OpenEvent(c)
    \/ DisconnectStep

SpecRace == Init /\ [][NextRace]_vars

\* Every awaited library call of a pairing request's connectToWhatsApp call
\* settles and every 500 ms timer of its poll loop fires.
RequestProgress(r) ==
    /\ WF_vars(\E ok \in BOOLEAN, registered \in BOOLEAN :
                   ConnectAuthDone(<<"req", r>>, ok, registered))
    /\ WF_vars(\E ok \in BOOLEAN : ConnectVersionDone(<<"req", r>>, ok))
    /\ WF_vars(ConnectDelayDone(<<"req", r>>))
    /\ WF_vars(\E ok \in BOOLEAN : ConnectPairingDone(<<"req", r>>, ok))
    /\ WF_vars(PollWake(r))

\* SpecConn with the library calls and timers of every pairing request
\* eventually completing.
SpecLive == Init /\ [][NextConn]_vars /\ \A r \in ReqIds : RequestProgress(r)


\* =================================================================== claims

\* ---- C1 -------------------------------------------------------------------
\* A phoneNumber that is absent, or that has fewer than 10 digits once the
\* non-digits are stripped.
FewerThanMinDigits(input) ==
    input.type = "undefined" \/ Len(StripNonDigits(input.str)) < MinDigits

\* C1: every pairing request whose phoneNumber is absent or has fewer than 10
\* digits is answered 400 with success:false, and nothing is connected: no
\* connectToWhatsApp call, no client, and sock, connectionState, chats and
\* messagesStore as they were.
C1_ShortPhoneRejected ==
    [][\A r \in ReqIds, input \in PhoneInputs :
          (FewerThanMinDigits(input) /\ PairRequest(r, input)) =>
              /\ resp'.status = 400
              /\ ~resp'.success
              /\ UNCHANGED << sock, connectionState, chats, messagesStore, clients,
                              calls >>]_vars

\* ---- C2 -------------------------------------------------------------------
PercentDecoded(param) ==
    [i \in 1..Len(param) |-> IF param[i] = "%40" THEN "@" ELSE param[i]]

ListAt(store, chatId) == IF chatId \in DOMAIN store THEN store[chatId] ELSE <<>>

\* This step appended exactly one outgoing record with this body to the list
\* of chatId and touched no other list.
AppendedOneOutgoing(chatId, body) ==
    /\ DOMAIN messagesStore' = DOMAIN messagesStore \cup {chatId}
    /\ Len(messagesStore'[chatId]) = Len(ListAt(messagesStore, chatId)) + 1
    /\ SubSeq(messagesStore'[chatId], 1, Len(ListAt(messagesStore, chatId)))
          = ListAt(messagesStore, chatId)
    /\ messagesStore'[chatId][Len(messagesStore'[chatId])].body = body
    /\ messagesStore'[chatId][Len(messagesStore'[chatId])].isOutgoing = TRUE
    /\ \A k \in DOMAIN messagesStore \ {chatId} : messagesStore'[k] = messagesStore[k]

\* The send handler resumes from sock.sendMessage and finishes.
SendFinishes == sendOp # None /\ sendOp' = None

\* C2 as stated: a send accepted while connected, with a text, always appends
\* exactly one outgoing record with that text to the decoded chat's list and
\* nothing to any other list.
C2_SendAlwaysAppends ==
    [][SendFinishes =>
          AppendedOneOutgoing(PercentDecoded(sendOp[1].param), sendOp[1].message)]_vars

\* C2, amended: the record is appended when sock.sendMessage resolves; when it
\* rejects the handler answers 500 and messagesStore is as it was.  A send is
\* accepted (reaches sock.sendMessage) only while connected and with a text,
\* and a send answered anything but 200 leaves messagesStore as it was.
C2_SendAppendsWhenDelivered ==
    [][/\ (resp'.op = "send" /\ resp'.status = 200) => SendFinishes
       /\ (resp'.op = "send" /\ resp'.status # 200) => messagesStore' = messagesStore
       /\ SendFinishes =>
            IF resp'.status = 200
            THEN AppendedOneOutgoing(PercentDecoded(sendOp[1].param), sendOp[1].message)
            ELSE resp'.status = 500 /\ messagesStore' = messagesStore
       /\ (sendOp = None /\ sendOp' # None) =>
            /\ connectionState.connected
            /\ sendOp'[1].message # ""
            /\ messagesStore' = messagesStore]_vars

\* A send answered 200 whose record followed an inbound one in the same list.
C2_SentAfterInbound ==
    /\ resp.op = "send"
    /\ resp.status = 200
    /\ UserJid \in DOMAIN messagesStore
    /\ Len(messagesStore[UserJid]) = 2
    /\ messagesStore[UserJid][2].isOutgoing
    /\ messagesStore[UserJid][2].body = "hello"

\* ---- C3 -------------------------------------------------------------------
\* C3: whatever the state before, once POST /api/disconnect has been handled
\* connectionState is its initial value, chats and messagesStore are empty and
\* sock is null.
C3_DisconnectAlwaysResets ==
    resp.op = "disconnect" =>
        /\ connectionState = InitialConnectionState
        /\ chats = <<>>
        /\ messagesStore = EmptyStore
        /\ sock = NoSock

\* ---- C4 -------------------------------------------------------------------
NoDuplicateIds(list) ==
    \A i, j \in 1..Len(list) : list[i].id = list[j].id => i = j

\* The last message of the batch that belongs to chat jid.
LastFor(batch, jid) ==
    batch[CHOOSE i \in 1..Len(batch) :
              /\ batch[i].remoteJid = jid
              /\ \A j \in 1..Len(batch) : batch[j].remoteJid = jid => j <= i]

\* The list holds exactly one entry for the chat of msg, showing msg as last.
OneEntryShowing(list, msg) ==
    /\ Cardinality(ChatIndex(list, msg.remoteJid)) = 1
    /\ \A k \in ChatIndex(list, msg.remoteJid) :
          list[k].lastMessage =
              Some([body |-> BodyOf(msg.message), timestamp |-> msg.messageTimestamp])

\* C4: after any sequence of inbound notify batches, chat-list refreshes and
\* disconnects no two entries of chats share an id; and after a notify batch
\* every chat of the batch has exactly one entry, whose lastMessage is that of
\* the chat's last message in the batch (so two messages from one unseen chat
\* leave one entry showing the second).
C4_ChatIdsUnique ==
    [][/\ NoDuplicateIds(chats')
       /\ \A c \in ClientIds, batch \in Batches :
             MessagesUpsert(c, batch, "notify") =>
                 \A i \in 1..Len(batch) :
                     OneEntryShowing(chats', LastFor(batch, batch[i].remoteJid))]_vars

\* Two inbound messages from the unseen chat UserJid arrived: one entry, which
\* shows the second.
C4_TwoFromUnseenChat ==
    /\ UserJid \in DOMAIN messagesStore
    /\ Len(messagesStore[UserJid]) = 2
    /\ messagesStore[UserJid][1].body = "hi"
    /\ messagesStore[UserJid][2].body = "yo"
    /\ Cardinality(ChatIndex(chats, UserJid)) = 1
    /\ \A k \in ChatIndex(chats, UserJid) :
          chats[k].lastMessage = Some([body |-> "yo", timestamp |-> 2])

\* ---- C5 -------------------------------------------------------------------
\* The poll loop of request r wakes from its last sleep: attempts becomes
\* maxAttempts.
LastWake(r) == req[r].pc = "sleep" /\ req[r].attempts = maxAttempts - 1 /\ PollWake(r)

NothingHappened(cs) == cs.pairingCode = None /\ cs.error = None /\ ~cs.connected

\* C5: a poll loop that exhausts its 30 attempts with no pairing code, no
\* error and connected false answers 408.
C5_ExhaustedPollTimesOut ==
    [][\A r \in ReqIds :
          (LastWake(r) /\ NothingHappened(connectionState)) =>
              resp'.op = "pair" /\ resp'.req = r /\ resp'.status = 408]_vars

\* A pairing request has just been answered 408 with nothing having happened.
C5_TimedOut ==
    /\ resp.op = "pair"
    /\ resp.status = 408
    /\ NothingHappened(connectionState)


\* ---- C6 -------------------------------------------------------------------
\* A step of one of the four endpoints that require a connection.
ConnectedOnlyStep ==
    \/ GetChats
    \/ \E param \in ChatParams : GetMessages(param)
    \/ \E param \in ChatParams, message \in MessageInputs : SendRequest(param, message)
    \/ GetContacts

\* C6: while connected is false, GET chats, GET messages, POST messages (with
\* or without a body) and GET contacts answer 503, success:false, "WhatsApp not
\* connected", call nothing on the protocol client and change nothing.
C6_RefusedWhenNotConnected ==
    [][(~connectionState.connected /\ ConnectedOnlyStep) =>
          /\ resp'.op \in {"chats", "messages", "send", "contacts"}
          /\ resp'.status = 503
          /\ ~resp'.success
          /\ resp'.message = "WhatsApp not connected"
          /\ UNCHANGED << sock, connectionState, chats, messagesStore, clients, calls,
                          sendOp, discOp, loadsPending >>]_vars

\* A send refused for want of a connection while messages are cached.
C6_SendRefused ==
    /\ resp = NotConnected("send")
    /\ ~connectionState.connected
    /\ messagesStore # EmptyStore

\* ---- C7 -------------------------------------------------------------------
\* C7: a close event clears connected and connecting; a reason other than
\* logged out schedules one reconnect for the phone number of the closed
\* client's connect call and leaves sock and error alone; logged out schedules
\* none, nulls sock and records 'Logged out'.  A reconnect timer that fires
\* starts a connect call with the number it was scheduled with, however many
\* clients were closed before.
C7_CloseSchedulesReconnect ==
    [][/\ \A c \in ClientIds, reason \in CloseReasons :
             CloseEvent(c, reason) =>
                 /\ ~connectionState'.connected
                 /\ ~connectionState'.connecting
                 /\ IF reason # "loggedOut"
                    THEN /\ timers' = Append(timers, clients[c].phone)
                         /\ sock' = sock
                         /\ connectionState'.error = connectionState.error
                    ELSE /\ timers' = timers
                         /\ sock' = NoSock
                         /\ connectionState'.error = Some(LoggedOutError)
       /\ TimerFire =>
             \E i \in TimerIds :
                 /\ calls[<<"timer", i>>].pc = "free"
                 /\ calls'[<<"timer", i>>].pc = "auth"
                 /\ calls'[<<"timer", i>>].phone = Head(timers)
                 /\ timers' = Tail(timers)]_vars

\* A reconnect is under way for the number of a client that closed.
C7_Reconnecting ==
    \E i \in TimerIds, c \in ClientIds :
        /\ calls[<<"timer", i>>].pc # "free"
        /\ clients[c].status = "closed"
        /\ clients[c].phone = calls[<<"timer", i>>].phone

\* ---- C8 -------------------------------------------------------------------
\* This step answers pairing request r from its poll loop (its connect call
\* has returned, now or earlier), not from its catch block.
AnsweredFromPoll(r) ==
    /\ resp'.op = "pair"
    /\ resp'.req = r
    /\ req[r].pc \in {"connect", "sleep"}
    /\ ~ \E registered \in BOOLEAN : ConnectAuthDone(<<"req", r>>, FALSE, registered)
    /\ ~ ConnectVersionDone(<<"req", r>>, FALSE)

PriorityOutcome(cs, answer) ==
    IF cs.pairingCode # None
    THEN answer.status = 200 /\ answer.pairingCode = cs.pairingCode
    ELSE IF cs.error # None
    THEN answer.status = 500 /\ answer.message = cs.error[1]
    ELSE IF cs.connected
    THEN answer.status = 200 /\ answer.connected
    ELSE answer.status = 408

\* C8: the answer of the poll loop is decided by connectionState at the moment
\* of answering, in the order pairing code (200 with the code), error (500
\* with the error), connected (200, connected:true); 408 only when there is
\* no pairing code, no error and connected is false.
C8_OutcomeByPriority ==
    [][\A r \in ReqIds :
          AnsweredFromPoll(r) => PriorityOutcome(connectionState', resp')]_vars

\* ---- C9 -------------------------------------------------------------------
\* A connectToWhatsApp call fails: one of its awaited calls rejects, or
\* makeWASocket throws.
ConnectFails ==
    \E id \in CallIds :
        \/ \E registered \in BOOLEAN : ConnectAuthDone(id, FALSE, registered)
        \/ ConnectVersionDone(id, FALSE)

\* C9: a failing connect call records the failure message in
\* connectionState.error, clears connecting and rethrows, and its caller
\* catches the failure: no rejection goes unhandled.
C9_ConnectFailureCaught ==
    [][ConnectFails =>
          /\ connectionState'.error = Some(LibError)
          /\ ~connectionState'.connecting
          /\ ~unhandled']_vars

\* ---- C10 ------------------------------------------------------------------
EventHandlerStep ==
    \/ \E c \in ClientIds, reason \in CloseReasons : CloseEvent(c, reason)
    \/ \E c \in ClientIds : OpenEvent(c)
    \/ \E c \in ClientIds : QrEvent(c)

\* The body of connectToWhatsApp (and, for a call of the pairing handler that
\* throws, the handler's catch block).
ConnectBodyStep ==
    \/ \E id \in CallIds, ok \in BOOLEAN, registered \in BOOLEAN :
          ConnectAuthDone(id, ok, registered)
    \/ \E id \in CallIds, ok \in BOOLEAN : ConnectVersionDone(id, ok)
    \/ \E id \in CallIds : ConnectDelayDone(id)
    \/ \E id \in CallIds, ok \in BOOLEAN : ConnectPairingDone(id, ok)

\* C10 as stated: connectionState changes only in the event handlers of the
\* connection controller and in the disconnect handler.
C10_OnlyEventsAndDisconnect ==
    [][connectionState' # connectionState => (EventHandlerStep \/ DisconnectStep)]_vars

\* C10, amended: connectionState changes only in connectToWhatsApp (its body
\* and its connection.update handler), in the request-pairing-code handler and
\* in the disconnect handler; the other endpoints (health, connection-status,
\* chats, messages read and send, contacts) change no field of it.
C10_OnlyControllerPairingDisconnect ==
    [][/\ connectionState' # connectionState =>
             \/ EventHandlerStep
             \/ DisconnectStep
             \/ ConnectBodyStep
             \/ \E r \in ReqIds, input \in PhoneInputs : PairRequest(r, input)
       /\ (ReadStep \/ SendStep) => connectionState' = connectionState]_vars

\* The pairing handler has changed connectionState before any client, and so
\* any event handler, existed.
C10_ChangedByPairingHandler ==
    /\ UsedClients = {}
    /\ discOp = None
    /\ connectionState # InitialConnectionState
    /\ connectionState.connecting
    /\ connectionState.phoneNumber = Some(TenDigitPhone)

\* ---- C11 ------------------------------------------------------------------
\* An entry that updateChatWithMessage inserted: it is named after its id and
\* shows a message (loadChats names its entries by group subject or
\* 'Unknown', with lastMessage null).
CreatedFromInbound(entry) ==
    entry.lastMessage # None /\ entry.name = BeforeAt(entry.id)

\* C11: among the entries created from inbound messages, delivered with
\* timestamps that never decrease, an entry earlier in chats shows a latest
\* message that is not older than that of any entry after it.
C11_MostRecentFirst ==
    \A i, j \in 1..Len(chats) :
        (i < j /\ CreatedFromInbound(chats[i]) /\ CreatedFromInbound(chats[j])) =>
            chats[i].lastMessage[1].timestamp >= chats[j].lastMessage[1].timestamp

\* ---- C12 ------------------------------------------------------------------
\* The messages of a batch that belong to one chat, in batch order.
OfChat(batch, chatId) == SelectSeq(batch, LAMBDA m : m.remoteJid = chatId)

RecordsOf(msgs) == [i \in 1..Len(msgs) |-> MessageData(msgs[i])]

IsPrefix(a, b) == Len(a) <= Len(b) /\ SubSeq(b, 1, Len(a)) = a

\* C12: a notify batch appends to each chat's list the records of that chat's
\* messages of the batch, one each and in batch order, and nothing else
\* changes in messagesStore; a batch of another type changes neither
\* messagesStore nor chats; and outside the disconnect handler every list only
\* grows at its end.
C12_NotifyAppendsInOrder ==
    [][/\ \A c \in ClientIds, batch \in Batches :
            MessagesUpsert(c, batch, "notify") =>
               /\ DOMAIN messagesStore' =
                     DOMAIN messagesStore \cup {batch[i].remoteJid : i \in 1..Len(batch)}
               /\ \A k \in DOMAIN messagesStore' :
                     messagesStore'[k] =
                        ListAt(messagesStore, k) \o RecordsOf(OfChat(batch, k))
       /\ \A c \in ClientIds, batch \in Batches :
            MessagesUpsert(c, batch, "append") => UNCHANGED << messagesStore, chats >>
       /\ ~DisconnectStep =>
            \A k \in DOMAIN messagesStore :
               k \in DOMAIN messagesStore' /\ IsPrefix(messagesStore[k], messagesStore'[k])
      ]_vars

\* One chat holds two inbound records in delivery order while another chat
\* holds one.
C12_TwoChatsFilled ==
    /\ UserJid \in DOMAIN messagesStore
    /\ GroupJid \in DOMAIN messagesStore
    /\ Len(messagesStore[UserJid]) = 2
    /\ messagesStore[UserJid][1].id = "A1"
    /\ messagesStore[UserJid][2].id = "A2"
    /\ messagesStore[GroupJid][1].id = "A3"

\* ---- C13 ------------------------------------------------------------------
\* What the open branch writes, and what it leaves alone before loadChats.
OpenWrites ==
    /\ connectionState'.connected
    /\ ~connectionState'.connecting
    /\ connectionState'.pairingCode = None
    /\ connectionState'.qr = None
    /\ connectionState'.error = None
    /\ connectionState'.phoneNumber = connectionState.phoneNumber
    /\ UNCHANGED << chats, messagesStore >>

\* What a settled refresh writes.
RefreshWrites ==
    \A ok \in BOOLEAN, groups \in GroupLists :
        LoadChatsDone(ok, groups) =>
           /\ messagesStore' = messagesStore
           /\ IF ok
              THEN /\ Len(chats') = Len(groups)
                   /\ \A i \in 1..Len(groups) :
                         /\ chats'[i].id = groups[i].id
                         /\ chats'[i].lastMessage = None
              ELSE chats' = chats

C14_PairingFailureAnswered500 ==
    [][\A r \in ReqIds :
          /\ \A input \in PhoneInputs :
                (PairingValidation(input) = "ok" /\ PairRequest(r, input)) =>
                   /\ connectionState'.pairingCode = None
                   /\ connectionState'.error = None
                   /\ connectionState'.connecting
                   /\ calls[<<"req", r>>].pc = "free"
                   /\ calls'[<<"req", r>>].pc = "auth"
          /\ ConnectPairingDone(<<"req", r>>, FALSE) =>
                /\ connectionState'.error = Some(LibError)
                /\ ~connectionState'.connecting
                /\ connectionState'.pairingCode = None
                /\ resp'.op = "pair"
                /\ resp'.req = r
                /\ resp'.status = 500
                /\ resp'.message = LibError]_vars

\* C14, amended: as above, except that the failing call stores no pairing code
\* of its own and the answer is 500 only when no pairing code is populated at
\* that moment; when another connect call has stored one meanwhile, the
\* pairing code takes priority and the answer is 200 carrying it.  The answer
\* is never 408.
C14_PairingFailureByPriority ==
    [][\A r \in ReqIds :
          /\ \A input \in PhoneInputs :
                (PairingValidation(input) = "ok" /\ PairRequest(r, input)) =>
                   /\ connectionState'.pairingCode = None
                   /\ connectionState'.error = None
                   /\ connectionState'.connecting
                   /\ calls[<<"req", r>>].pc = "free"
                   /\ calls'[<<"req", r>>].pc = "auth"
          /\ ConnectPairingDone(<<"req", r>>, FALSE) =>
                /\ connectionState'.error = Some(LibError)
                /\ ~connectionState'.connecting
                /\ connectionState'.pairingCode = connectionState.pairingCode
                /\ resp'.op = "pair"
                /\ resp'.req = r
                /\ IF connectionState.pairingCode = None
                   THEN resp'.status = 500 /\ resp'.message = LibError
                   ELSE /\ resp'.status = 200
                        /\ resp'.pairingCode = connectionState.pairingCode]_vars

\* A pairing request whose client was created has been answered 500 with the
\* library's message, which connectionState.error holds.
C14_AnsweredWithLibError ==
    /\ resp.op = "pair"
    /\ resp.status = 500
    /\ resp.message = LibError
    /\ connectionState.error = Some(LibError)
    /\ ~connectionState.connecting
    /\ connectionState.pairingCode = None
    /\ \E c \in ClientIds : clients[c].via = "req"

\* ---- C15 ------------------------------------------------------------------
\* C15: whenever connectionState.connected is true, sock is non-null.
C15_ConnectedImpliesClient == connectionState.connected => sock # NoSock

\* ---- C16 ------------------------------------------------------------------
\* C16: at most one client with registered handlers is open or connecting,
\* and it is the one sock holds.
C16_OnlyLiveClientIsSock ==
    /\ Cardinality({c \in ClientIds : Live(c)}) <= 1
    /\ \A c \in ClientIds : Live(c) => sock = c

\* ---- C17 ------------------------------------------------------------------
\* The state a successful disconnect leaves.  phoneNumber is null in it:
\* every valid pairing request sets phoneNumber and only the disconnect's
\* reset clears it, so after the first valid request this state is one that
\* a successful disconnect left and no valid request has followed.
ResetState ==
    /\ connectionState = InitialConnectionState
    /\ sock = NoSock
    /\ chats = <<>>
    /\ messagesStore = EmptyStore

\* C17: once a disconnect has left connectionState initial, sock null and both
\* caches empty, they stay so under every step that is not the receipt of a
\* pairing request: timers set earlier, connect calls and polls in flight and
\* events of earlier clients change none of them.
C17_ResetStaysAfterDisconnect ==
    [][(/\ ResetState
        /\ ~ \E r \in AllReqIds, input \in PhoneInputs : PairRequest(r, input))
          => ResetState']_vars

\* ---- C18 ------------------------------------------------------------------
\* The digits of the number pairing request r was made with.
OwnPhone(r) == StripNonDigits(RacePhone(r).str)

BothInFlight == \A r \in AllReqIds : req[r].pc # "idle"

\* C18: with two pairing requests for different numbers overlapping, a
\* request answered 200 with a pairing code gets a code generated for its own
\* number, and a pairing code stored while both are in flight was generated
\* for connectionState.phoneNumber.  (A request can only be answered with a
\* code stored after it was received, so a code of the other number shows
\* that the two overlapped.)
C18_OwnPairingCode ==
    [][/\ \A r \in AllReqIds :
            (resp'.op = "pair" /\ resp'.req = r /\ resp'.status = 200
                /\ resp'.pairingCode # None)
              => resp'.pairingCode[1].forPhone = OwnPhone(r)
       /\ (BothInFlight /\ connectionState'.pairingCode # None) =>
            connectionState'.phoneNumber =
                Some(connectionState'.pairingCode[1].forPhone)]_vars

\* ---- C19 ------------------------------------------------------------------
\* C19: connected and connecting are never both true.
C19_NotConnectedAndConnecting ==
    ~(connectionState.connected /\ connectionState.connecting)

\* ---- C20 ------------------------------------------------------------------
\* Pairing request r has just been answered 200, 408 or 500.
PairingAnswered(r) ==
    resp.op = "pair" /\ resp.req = r /\ resp.status \in {200, 408, 500}

====
